---- MODULE Spec2Model ----
(***************************************************************************)
(* Model of preprocess/create_db.py: import_with_progress reads a          *)
(* delimited text file in chunks and loads it into one SQLite table.       *)
(*                                                                         *)
(* The function is a sequential program; pc is its position, one action    *)
(* per statement group.  The database is modelled by two copies of the     *)
(* destination table: `committed` is what is durable in the database file, *)
(* `working` is what the open connection sees.  A statement changes        *)
(* `working`, conn.commit() copies it to `committed`, and conn.close()     *)
(* without a commit discards the difference.  Rows are identified by their *)
(* position in the input file (1..nrows); rows of a table that existed     *)
(* before the first run carry the identifier 0.                            *)
(***************************************************************************)
EXTENDS Integers, Sequences, FiniteSets, TLC

\* ---------------------------------------------------------------- bounds
MaxRows == 3      \* data rows in the input file
MaxChunk == 2     \* chunksize argument
MaxCols == 4      \* columns in the header
MaxRuns == 2      \* calls of import_with_progress in one behaviour

\* ------------------------------------------------------ program constants
SampleRows == 1000    \* nrows=1000
IndexCap == 3         \* first_chunk.columns[:3]
ByteFactor == 8       \* chunksize * len(chunk.columns) * 8

Min(a, b) == IF a < b THEN a ELSE b
Max(a, b) == IF a > b THEN a ELSE b

RECURSIVE SumSeq(_)
SumSeq(s) == IF s = <<>> THEN 0 ELSE Head(s) + SumSeq(Tail(s))

\* --------------------------------------------------------- the input file
\* A column is described by what its values are written as.
Kinds == {"int", "float", "date", "str"}
Seps == {",", "\t"}

KindOrder == <<"int", "float", "date", "str">>

\* The headers tried: 1..MaxCols columns whose kinds cycle through KindOrder,
\* starting at any kind, so that every kind occurs at every position.
ColumnLists ==
    {[k \in 1..n |-> KindOrder[((s + k) % Len(KindOrder)) + 1]] :
        s \in 1..Len(KindOrder), n \in 1..MaxCols}

\* Bytes one field takes in a data line, its separator or newline included.
FieldBytes(kind) ==
    CASE kind = "int" -> 2
      [] kind = "float" -> 4
      [] kind = "date" -> 11
      [] OTHER -> 4

\* The header line: one-letter column names joined by the file's separator.
HeaderLine(cols, fsep) ==
    [k \in 1..(2 * Len(cols) - 1) |-> IF k % 2 = 1 THEN "c" ELSE fsep]

\* os.path.getsize: header line plus the data lines.
FileSize(cols, n) ==
    2 * Len(cols) + n * SumSeq([k \in 1..Len(cols) |-> FieldBytes(cols[k])])

\* Fields of data row r: in a file marked short the last data row lacks its
\* last field.
RowFields(f, r) ==
    IF f.short /\ r = f.nrows THEN Len(f.cols) - 1 ELSE Len(f.cols)

\* Size of the file in bytes: a short last row lacks the bytes of its field.
FileBytes(f) ==
    FileSize(f.cols, f.nrows)
        - (IF f.short THEN FieldBytes(f.cols[Len(f.cols)]) ELSE 0)

\* ------------------------------------------------------------ exceptions
ExcKinds == {"FileNotFoundError", "PermissionError", "UnicodeDecodeError",
             "OperationalError", "ParserError"}

\* The classes an exception is an instance of.
Bases(kind) ==
    CASE kind = "FileNotFoundError" -> {"FileNotFoundError", "OSError", "Exception"}
      [] kind = "PermissionError" -> {"PermissionError", "OSError", "Exception"}
      [] kind = "UnicodeDecodeError" -> {"UnicodeDecodeError", "ValueError", "Exception"}
      [] kind = "OperationalError" -> {"OperationalError", "Exception"}
      [] kind = "ParserError" -> {"ParserError", "ValueError", "Exception"}
      [] OTHER -> {}

CatchesOnlyOSError(clause, kind) ==
    IF clause = "Exception" THEN "OSError" \in Bases(kind) ELSE clause \in Bases(kind)

\* `except <clause>` matches an exception of the given kind.
Catches(clause, kind) == clause \in Bases(kind)

\* ------------------------------------------------------ delimiter sniffing
DetectSepCommaOnly(first_line) == ","

\* if '\t' in first_line: sep = '\t' else: sep = ','
DetectSep(first_line) ==
    IF \E k \in 1..Len(first_line) : first_line[k] = "\t" THEN "\t" ELSE ","

\* ------------------------------------------------------------ the parser
RowAcceptedExact(nfields, ncols) == nfields = ncols

\* pd.read_csv with its default arguments: a line with no more fields than
\* the header is taken, its missing trailing fields read as NaN; a line with
\* more fields than the header is an error.
RowAccepted(nfields, ncols) == nfields <= ncols

\* The parser takes all of the data rows from..to.
RowsAccepted(f, from, to) ==
    \A r \in from..to : RowAccepted(RowFields(f, r), Len(f.cols))

\* ---------------------------------------------------------- schema sample
\* dtype pandas gives a column read without parse_dates: whole numbers are
\* int64, decimals float64, everything else (dates included) and a column
\* without any value is object.
InferDtype(kind, n) ==
    IF n = 0 THEN "object"
    ELSE CASE kind = "int" -> "int64"
           [] kind = "float" -> "float64"
           [] OTHER -> "object"

\* pd.read_csv(import_file, sep=sep, nrows=1000)
ReadSample(cols, n) ==
    [len |-> Min(n, SampleRows),
     dtypes |-> [k \in 1..Len(cols) |-> InferDtype(cols[k], Min(n, SampleRows))]]

NoSample == [len |-> 0, dtypes |-> <<>>]

\* A column holding NaN cannot stay int64: pandas makes it float64.
WithMissing(dtype) == IF dtype = "int64" THEN "float64" ELSE dtype

\* The sample of a file: a short row among the sampled rows leaves a NaN in
\* the last column.
SampleOf(f) ==
    IF f.short /\ f.nrows <= SampleRows
    THEN [ReadSample(f.cols, f.nrows) EXCEPT !.dtypes[Len(f.cols)] = WithMissing(@)]
    ELSE ReadSample(f.cols, f.nrows)

\* ------------------------------------------------------------ the table
NoTable == [exists |-> FALSE, rows |-> <<>>, idx |-> {}]
OldTable == [exists |-> TRUE, rows |-> <<0, 0>>, idx |-> {1, 4}]

DropTableKeep(t) == t

\* DROP TABLE IF EXISTS: the table goes, and its indexes with it.
DropTable(t) == NoTable

\* Rows appended to the table, which is created when it does not exist.
InsertRows(t, rows) ==
    IF t.exists THEN [t EXCEPT !.rows = @ \o rows]
    ELSE [exists |-> TRUE, rows |-> rows, idx |-> {}]

IfExistsAlwaysReplace(i) == "replace"

IfExistsReplaceTwice(i) == IF i <= 1 THEN "replace" ELSE "append"

\* if_exists = 'replace' if i == 0 else 'append'
IfExists(i) == IF i = 0 THEN "replace" ELSE "append"

\* chunk.to_sql(table_name, conn, if_exists=if_exists, index=False)
ToSql(t, rows, if_exists) ==
    IF if_exists = "replace" THEN InsertRows(DropTable(t), rows)
    ELSE InsertRows(t, rows)

\* CREATE INDEX IF NOT EXISTS idx_<table>_<col> ON <table>(<col>)
CreateIndex(t, col) == [t EXCEPT !.idx = @ \cup {col}]

\* ------------------------------------------------------- the chunk reader
ChunkRowsOneMore(pos, size, n) == [k \in 1..Min(size + 1, n - pos) |-> pos + k]

\* The next chunk: at most `size` rows in file order, starting after `pos`.
ChunkRows(pos, size, n) == [k \in 1..Min(size, n - pos) |-> pos + k]

\* -------------------------------------------------------------- progress
ProgressStepNoClamp(size, ncols, fsize, n) == size * ncols * ByteFactor

\* min(chunksize * len(chunk.columns) * 8, file_size - pbar.n)
ProgressStep(size, ncols, fsize, n) ==
    Min(size * ncols * ByteFactor, fsize - n)

\* ---------------------------------------------------------------- indexer
IndexColumnsAll(ncols) == 1..ncols

\* first_chunk.columns[:3], as column positions
IndexColumns(ncols) == 1..Min(IndexCap, ncols)

\* dtype.name in ['int64', 'float64', 'datetime64[ns]']
Indexable(dtype) == dtype \in {"int64", "float64", "datetime64[ns]"}

\* ------------------------------------------------------------------ state
VARIABLES
    file,         \* the input file: [exists, cols, nrows, fsep]
    chunksize,    \* the chunksize argument
    committed,    \* the destination table as stored in the database file
    working,      \* the destination table as the open connection sees it
    pc,           \* position in import_with_progress
    conn,         \* "unbound" (no local yet), "open" or "closed"
    file_size, first_line, sep, first_chunk,
    pos,          \* rows the chunk reader has consumed
    nchunks,      \* chunks the reader has handed out
    i, chunk,     \* loop variables of the chunk loop
    pbar_n,       \* pbar.n
    row_count,    \* the printed final row count, -1 before it is printed
    col,          \* position of the column the index loop is at
    exc,          \* the exception in flight, "none" without one
    reported,     \* messages printed by the except clauses
    outcome,      \* "none", "running", "DONE", "FAILED" or "ESCAPED"
    runs,         \* calls started so far
    hist          \* observations of the current run, not program state

vars == <<file, chunksize, committed, working, pc, conn, file_size, first_line,
          sep, first_chunk, pos, nchunks, i, chunk, pbar_n, row_count, col,
          exc, reported, outcome, runs, hist>>

inputs == <<file, chunksize>>
locals == <<file_size, first_line, sep, first_chunk, pos, nchunks, i, chunk,
            pbar_n, row_count, col>>

NoFile ==
    [exists |-> FALSE, cols |-> <<"str">>, nrows |-> 0, fsep |-> ",",
     short |-> FALSE]

\* A short row needs a data row to be and a second field to lack.
Files ==
    {NoFile} \cup
    {f \in [exists : {TRUE}, cols : ColumnLists, nrows : 0..MaxRows,
            fsep : Seps, short : BOOLEAN] :
        f.short => (f.nrows >= 1 /\ Len(f.cols) >= 2)}

\* What is recorded about a run: where an exception was raised, whether the
\* environment caused it, what the run did to the database.
NoHist ==
    [failStage |-> "none", failChunk |-> -1, envFault |-> FALSE,
     created |-> {}, idxFailed |-> {}, stmts |-> 0, commits |-> 0,
     lookups |-> 0, connects |-> 0, db0 |-> NoTable,
     prevOutcome |-> "none", prevRows |-> -1,
     lens |-> <<>>, read |-> <<>>, sampleSep |-> "", readerSep |-> "",
     events |-> <<>>, modes |-> <<>>, dropAt |-> {}]

\* Where the table is dropped: by the DROP statement before the loop, or by
\* the write of chunk k when it replaces the table.
BeforeLoop == -1
DropsOf(k, if_exists) == IF if_exists = "replace" THEN {k} ELSE {}

\* The first write of a run creates the table, the second starts appending.
WriteEvent(k) ==
    IF k = 0 THEN <<"TABLE_CREATED">>
    ELSE IF k = 1 THEN <<"APPENDING">> ELSE <<>>

Init ==
    /\ file \in Files
    /\ chunksize \in 1..MaxChunk
    /\ committed \in {NoTable, OldTable}
    /\ working = committed
    /\ pc = "idle"
    /\ conn = "unbound"
    /\ file_size = 0
    /\ first_line = <<>>
    /\ sep = ""
    /\ first_chunk = NoSample
    /\ pos = 0
    /\ nchunks = 0
    /\ i = -1
    /\ chunk = <<>>
    /\ pbar_n = 0
    /\ row_count = -1
    /\ col = 0
    /\ exc = "none"
    /\ reported = {}
    /\ outcome = "none"
    /\ runs = 0
    /\ hist = NoHist

\* An exception of the given kind leaves the statement at pc; the enclosing
\* try decides where control goes.
Raise(kind, k, env) ==
    /\ exc' = kind
    /\ pc' = IF pc \in {"index", "index_commit"} THEN "index_except" ELSE "except"
    /\ hist' = [hist EXCEPT !.failStage = pc, !.failChunk = k, !.envFault = env]

\* import_with_progress(import_file, db_name, table_name, chunksize)
Call ==
    /\ pc = "idle"
    /\ runs < MaxRuns
    /\ runs' = runs + 1
    /\ pc' = "getsize"
    /\ outcome' = "running"
    /\ conn' = "unbound"
    /\ file_size' = 0
    /\ first_line' = <<>>
    /\ sep' = ""
    /\ first_chunk' = NoSample
    /\ pos' = 0
    /\ nchunks' = 0
    /\ i' = -1
    /\ chunk' = <<>>
    /\ pbar_n' = 0
    /\ row_count' = -1
    /\ col' = 0
    /\ exc' = "none"
    /\ reported' = {}
    /\ hist' = [NoHist EXCEPT !.db0 = committed,
                              !.prevOutcome = outcome,
                              !.prevRows = IF committed.exists
                                           THEN Len(committed.rows) ELSE -1]
    /\ UNCHANGED <<inputs, committed, working>>

GetSizeIgnoreMissing ==
    /\ pc = "getsize"
    /\ file_size' = IF file.exists THEN FileBytes(file) ELSE 0
    /\ pc' = "header"
    /\ hist' = [hist EXCEPT !.lookups = @ + 1]
    /\ UNCHANGED <<inputs, committed, working, conn, first_line, sep,
                   first_chunk, pos, nchunks, i, chunk, pbar_n, row_count, col,
                   exc, reported, outcome, runs>>

\* file_size = os.path.getsize(import_file)
GetSize ==
    /\ pc = "getsize"
    /\ \/ /\ file.exists
          /\ file_size' = FileBytes(file)
          /\ pc' = "header"
          /\ hist' = [hist EXCEPT !.lookups = @ + 1]
          /\ UNCHANGED exc
       \/ /\ ~file.exists
          /\ exc' = "FileNotFoundError"
          /\ pc' = "except"
          /\ hist' = [hist EXCEPT !.lookups = @ + 1, !.failStage = pc]
          /\ UNCHANGED file_size
       \/ /\ file.exists
          /\ exc' = "PermissionError"
          /\ pc' = "except"
          /\ hist' = [hist EXCEPT !.lookups = @ + 1, !.failStage = pc,
                                  !.envFault = TRUE]
          /\ UNCHANGED file_size
    /\ UNCHANGED <<inputs, committed, working, conn, first_line, sep,
                   first_chunk, pos, nchunks, i, chunk, pbar_n, row_count, col,
                   reported, outcome, runs>>

\* with open(import_file, 'r', encoding='utf-8') as f: ... sep = ...
ReadHeader ==
    /\ pc = "header"
    /\ \/ /\ first_line' = HeaderLine(file.cols, file.fsep)
          /\ sep' = DetectSep(HeaderLine(file.cols, file.fsep))
          /\ pc' = "connect"
          /\ UNCHANGED <<exc, hist>>
       \/ /\ Raise("UnicodeDecodeError", -1, TRUE)
          /\ UNCHANGED <<first_line, sep>>
    /\ UNCHANGED <<inputs, committed, working, conn, file_size, first_chunk,
                   pos, nchunks, i, chunk, pbar_n, row_count, col, reported,
                   outcome, runs>>

ConnectThenDrop ==
    /\ pc = "connect"
    /\ conn' = "open"
    /\ working' = DropTable(committed)
    /\ committed' = DropTable(committed)
    /\ pc' = "sample"
    /\ hist' = [hist EXCEPT !.connects = @ + 1, !.stmts = @ + 1,
                            !.commits = @ + 1]
    /\ UNCHANGED <<inputs, locals, exc, reported, outcome, runs>>

\* conn = sqlite3.connect(db_name)
Connect ==
    /\ pc = "connect"
    /\ \/ /\ conn' = "open"
          /\ working' = committed
          /\ pc' = "sample"
          /\ hist' = [hist EXCEPT !.connects = @ + 1]
          /\ UNCHANGED exc
       \/ /\ Raise("OperationalError", -1, TRUE)
          /\ UNCHANGED <<conn, working>>
    /\ UNCHANGED <<inputs, committed, locals, reported, outcome, runs>>

\* first_chunk = pd.read_csv(import_file, sep=sep, nrows=1000); dtypes = ...
\* The read fails on a row the parser does not take, or for a reason of the
\* environment.
Sample ==
    /\ pc = "sample"
    /\ \/ /\ RowsAccepted(file, 1, Min(file.nrows, SampleRows))
          /\ first_chunk' = SampleOf(file)
          /\ pc' = "drop"
          /\ hist' = [hist EXCEPT !.sampleSep = sep,
                                  !.events = Append(@, "SCHEMA_SAMPLED")]
          /\ UNCHANGED exc
       \/ /\ Raise("ParserError", -1,
                   RowsAccepted(file, 1, Min(file.nrows, SampleRows)))
          /\ UNCHANGED first_chunk
    /\ UNCHANGED <<inputs, committed, working, conn, file_size, first_line,
                   sep, pos, nchunks, i, chunk, pbar_n, row_count, col,
                   reported, outcome, runs>>

\* cursor = conn.cursor(); cursor.execute("DROP TABLE IF EXISTS ...")
Drop ==
    /\ pc = "drop"
    /\ \/ /\ working' = DropTable(working)
          /\ pc' = "drop_commit"
          /\ hist' = [hist EXCEPT !.stmts = @ + 1,
                                  !.dropAt = @ \cup {BeforeLoop}]
          /\ UNCHANGED exc
       \/ /\ Raise("OperationalError", -1, TRUE)
          /\ UNCHANGED working
    /\ UNCHANGED <<inputs, committed, conn, locals, reported, outcome, runs>>

DropCommitSkip ==
    /\ pc = "drop_commit"
    /\ pc' = "reader"
    /\ UNCHANGED <<inputs, committed, working, conn, locals, exc, reported,
                   outcome, runs, hist>>

\* conn.commit() after the drop
DropCommit ==
    /\ pc = "drop_commit"
    /\ \/ /\ committed' = working
          /\ pc' = "reader"
          /\ hist' = [hist EXCEPT !.commits = @ + 1]
          /\ UNCHANGED exc
       \/ /\ Raise("OperationalError", -1, TRUE)
          /\ UNCHANGED committed
    /\ UNCHANGED <<inputs, working, conn, locals, reported, outcome, runs>>

\* with tqdm(total=file_size, ...) as pbar: chunks = pd.read_csv(..., chunksize=chunksize)
OpenReader ==
    /\ pc = "reader"
    /\ pbar_n' = 0
    /\ pos' = 0
    /\ nchunks' = 0
    /\ pc' = "next"
    /\ hist' = [hist EXCEPT !.readerSep = sep]
    /\ UNCHANGED <<inputs, committed, working, conn, file_size, first_line,
                   sep, first_chunk, i, chunk, row_count, col, exc, reported,
                   outcome, runs>>

\* for i, chunk in enumerate(chunks): the reader hands out the next chunk.
\* For a file without data rows the reader either ends at once or hands out
\* one chunk without rows before it ends.
NextChunk ==
    /\ pc = "next"
    /\ \/ pos < file.nrows
       \/ file.nrows = 0 /\ nchunks = 0
    /\ RowsAccepted(file, pos + 1, pos + Len(ChunkRows(pos, chunksize, file.nrows)))
    /\ chunk' = ChunkRows(pos, chunksize, file.nrows)
    /\ pos' = pos + Len(ChunkRows(pos, chunksize, file.nrows))
    /\ i' = nchunks
    /\ nchunks' = nchunks + 1
    /\ pc' = "to_sql"
    /\ hist' = [hist EXCEPT
                  !.lens = Append(@, Len(ChunkRows(pos, chunksize, file.nrows))),
                  !.read = @ \o ChunkRows(pos, chunksize, file.nrows)]
    /\ UNCHANGED <<inputs, committed, working, conn, file_size, first_line,
                   sep, first_chunk, pbar_n, row_count, col, exc, reported,
                   outcome, runs>>

NextChunkFailsSwallowed ==
    /\ pc = "next"
    /\ pos < file.nrows
    /\ pc' = "count"
    /\ UNCHANGED <<inputs, committed, working, conn, locals, exc, reported,
                   outcome, runs, hist>>

\* The reader fails on the chunk it is asked for: on a row the parser does
\* not take, or for a reason of the environment.
NextChunkFails ==
    /\ pc = "next"
    /\ pos < file.nrows
    /\ Raise("ParserError", nchunks,
             RowsAccepted(file, pos + 1,
                          pos + Len(ChunkRows(pos, chunksize, file.nrows))))
    /\ UNCHANGED <<inputs, committed, working, conn, locals, reported, outcome,
                   runs>>

LoopExitSpin ==
    /\ pc = "next"
    /\ pos >= file.nrows
    /\ UNCHANGED vars

\* The reader is exhausted: the loop and the with block end.
LoopExit ==
    /\ pc = "next"
    /\ pos >= file.nrows
    /\ pc' = "count"
    /\ hist' = [hist EXCEPT !.events = Append(@, "exhausted")]
    /\ UNCHANGED <<inputs, committed, working, conn, locals, exc, reported,
                   outcome, runs>>

\* chunk.to_sql(table_name, conn, if_exists=if_exists, index=False).  A
\* failing write may leave some of the chunk's rows behind, uncommitted.
WriteChunk ==
    /\ pc = "to_sql"
    /\ \/ /\ working' = ToSql(working, chunk, IfExists(i))
          /\ pc' = "update"
          /\ hist' = [hist EXCEPT !.stmts = @ + 1,
                                  !.modes = Append(@, IfExists(i)),
                                  !.dropAt = @ \cup DropsOf(i, IfExists(i)),
                                  !.events = @ \o WriteEvent(i)]
          /\ UNCHANGED exc
       \/ /\ \E n \in 0..Max(0, Len(chunk) - 1) :
                working' = ToSql(working, SubSeq(chunk, 1, n), IfExists(i))
          /\ exc' = "OperationalError"
          /\ pc' = "except"
          /\ hist' = [hist EXCEPT !.failStage = pc, !.failChunk = i,
                                  !.envFault = TRUE,
                                  !.modes = Append(@, IfExists(i)),
                                  !.dropAt = @ \cup DropsOf(i, IfExists(i))]
    /\ UNCHANGED <<inputs, committed, conn, locals, reported, outcome, runs>>

\* pbar.update(min(chunksize * len(chunk.columns) * 8, file_size - pbar.n))
UpdateProgress ==
    /\ pc = "update"
    /\ pbar_n' = pbar_n + ProgressStep(chunksize, Len(file.cols), file_size, pbar_n)
    /\ pc' = "chunk_commit"
    /\ UNCHANGED <<inputs, committed, working, conn, file_size, first_line,
                   sep, first_chunk, pos, nchunks, i, chunk, row_count, col,
                   exc, reported, outcome, runs, hist>>

CommitChunkSkip ==
    /\ pc = "chunk_commit"
    /\ pc' = "next"
    /\ UNCHANGED <<inputs, committed, working, conn, locals, exc, reported,
                   outcome, runs, hist>>

CommitChunkBreak ==
    /\ pc = "chunk_commit"
    /\ committed' = working
    /\ pc' = "count"
    /\ hist' = [hist EXCEPT !.commits = @ + 1]
    /\ UNCHANGED <<inputs, working, conn, locals, exc, reported, outcome, runs>>

\* conn.commit() at the end of the loop body
CommitChunk ==
    /\ pc = "chunk_commit"
    /\ \/ /\ committed' = working
          /\ pc' = "next"
          /\ hist' = [hist EXCEPT !.commits = @ + 1]
          /\ UNCHANGED exc
       \/ /\ Raise("OperationalError", i, TRUE)
          /\ UNCHANGED committed
    /\ UNCHANGED <<inputs, working, conn, locals, reported, outcome, runs>>

\* cursor.execute("SELECT COUNT(*) FROM ..."); row_count = ...; print(...)
\* The query fails when the table does not exist.
CountRows ==
    /\ pc = "count"
    /\ \/ /\ working.exists
          /\ row_count' = Len(working.rows)
          /\ pc' = "index"
          /\ col' = 1
          /\ hist' = [hist EXCEPT !.events = Append(@, "counted")]
          /\ UNCHANGED exc
       \/ /\ ~working.exists
          /\ Raise("OperationalError", -1, FALSE)
          /\ UNCHANGED <<row_count, col>>
       \/ /\ working.exists
          /\ Raise("OperationalError", -1, TRUE)
          /\ UNCHANGED <<row_count, col>>
    /\ UNCHANGED <<inputs, committed, working, conn, file_size, first_line,
                   sep, first_chunk, pos, nchunks, i, chunk, pbar_n, reported,
                   outcome, runs>>

\* for i, col in enumerate(first_chunk.columns[:3]): if dtype ...: CREATE INDEX
IndexStep ==
    /\ pc = "index"
    /\ col \in IndexColumns(Len(first_chunk.dtypes))
    /\ \/ /\ Indexable(first_chunk.dtypes[col])
          /\ working' = CreateIndex(working, col)
          /\ col' = col + 1
          /\ hist' = [hist EXCEPT !.created = @ \cup {col}, !.stmts = @ + 1]
          /\ UNCHANGED <<pc, exc>>
       \/ /\ Indexable(first_chunk.dtypes[col])
          /\ exc' = "OperationalError"
          /\ pc' = "index_except"
          /\ hist' = [hist EXCEPT !.failStage = pc, !.envFault = TRUE,
                                  !.idxFailed = @ \cup {col}]
          /\ UNCHANGED <<working, col>>
       \/ /\ ~Indexable(first_chunk.dtypes[col])
          /\ col' = col + 1
          /\ UNCHANGED <<working, pc, exc, hist>>
    /\ UNCHANGED <<inputs, committed, conn, file_size, first_line, sep,
                   first_chunk, pos, nchunks, i, chunk, pbar_n, row_count,
                   reported, outcome, runs>>

\* The index loop is over: conn.commit(), still inside the inner try.
IndexCommit ==
    /\ pc = "index"
    /\ col \notin IndexColumns(Len(first_chunk.dtypes))
    /\ \/ /\ committed' = working
          /\ pc' = "finally"
          /\ hist' = [hist EXCEPT !.commits = @ + 1,
                                  !.events = Append(@, "INDEXED")]
          /\ UNCHANGED exc
       \/ /\ exc' = "OperationalError"
          /\ pc' = "index_except"
          /\ hist' = [hist EXCEPT !.failStage = "index_commit", !.envFault = TRUE]
          /\ UNCHANGED committed
    /\ UNCHANGED <<inputs, working, conn, locals, reported, outcome, runs>>

\* except Exception as e: print("error while creating indexes") of the inner
\* try; an exception it does not match goes on to the outer try.
IndexExcept ==
    /\ pc = "index_except"
    /\ IF Catches("Exception", exc)
       THEN /\ reported' = reported \cup {"index_error"}
            /\ exc' = "none"
            /\ pc' = "finally"
            /\ hist' = [hist EXCEPT !.events = Append(@, "INDEXED")]
       ELSE /\ pc' = "except"
            /\ UNCHANGED <<reported, exc, hist>>
    /\ UNCHANGED <<inputs, committed, working, conn, locals, outcome, runs>>

\* except FileNotFoundError: print(...)  except Exception as e: print(...)
\* An exception neither clause matches stays in flight.
Except ==
    /\ pc = "except"
    /\ IF Catches("FileNotFoundError", exc)
       THEN /\ reported' = reported \cup {"not_found"}
            /\ exc' = "none"
            /\ outcome' = "FAILED"
       ELSE IF Catches("Exception", exc)
       THEN /\ reported' = reported \cup {"error"}
            /\ exc' = "none"
            /\ outcome' = "FAILED"
       ELSE UNCHANGED <<reported, exc, outcome>>
    /\ pc' = "finally"
    /\ UNCHANGED <<inputs, committed, working, conn, locals, runs, hist>>

FinallyCloseOnSuccess ==
    /\ pc = "finally"
    /\ IF conn = "open" /\ outcome # "FAILED"
       THEN conn' = "closed" /\ working' = committed
       ELSE UNCHANGED <<conn, working>>
    /\ outcome' = IF exc # "none" THEN "ESCAPED"
                  ELSE IF outcome = "FAILED" THEN "FAILED" ELSE "DONE"
    /\ pc' = "idle"
    /\ UNCHANGED <<inputs, committed, locals, exc, reported, runs, hist>>

\* finally: if 'conn' in locals() and conn: conn.close()
\* Closing drops what the connection has not committed.  The function then
\* returns, or the exception still in flight leaves it.
Finally ==
    /\ pc = "finally"
    /\ IF conn = "open"
       THEN conn' = "closed" /\ working' = committed
       ELSE UNCHANGED <<conn, working>>
    /\ outcome' = IF exc # "none" THEN "ESCAPED"
                  ELSE IF outcome = "FAILED" THEN "FAILED" ELSE "DONE"
    /\ pc' = "idle"
    /\ UNCHANGED <<inputs, committed, locals, exc, reported, runs, hist>>

Next ==
    \/ Call
    \/ GetSize
    \/ ReadHeader
    \/ Connect
    \/ Sample
    \/ Drop
    \/ DropCommit
    \/ OpenReader
    \/ NextChunk
    \/ NextChunkFails
    \/ LoopExit
    \/ WriteChunk
    \/ UpdateProgress
    \/ CommitChunk
    \/ CountRows
    \/ IndexStep
    \/ IndexCommit
    \/ IndexExcept
    \/ Except
    \/ Finally

Spec == Init /\ [][Next]_vars

\* The statements of one call.  The interpreter runs them one after the
\* other and each of them returns or raises, so a call that has a statement
\* to run goes on to run it; whether the caller calls again is up to it.
Run ==
    \/ GetSize
    \/ ReadHeader
    \/ Connect
    \/ Sample
    \/ Drop
    \/ DropCommit
    \/ OpenReader
    \/ NextChunk
    \/ NextChunkFails
    \/ LoopExit
    \/ WriteChunk
    \/ UpdateProgress
    \/ CommitChunk
    \/ CountRows
    \/ IndexStep
    \/ IndexCommit
    \/ IndexExcept
    \/ Except
    \/ Finally

FairSpec == Spec /\ WF_vars(Run)

\* The call has returned (or an exception has left it).
Returned == pc = "idle" /\ runs > 0

TypeOK ==
    /\ pc \in {"idle", "getsize", "header", "connect", "sample", "drop",
               "drop_commit", "reader", "next", "to_sql", "update",
               "chunk_commit", "count", "index", "index_except", "except",
               "finally"}
    /\ conn \in {"unbound", "open", "closed"}
    /\ outcome \in {"none", "running", "DONE", "FAILED", "ESCAPED"}
    /\ exc \in ExcKinds \cup {"none"}
    /\ runs \in 0..MaxRuns

\* ------------------------------------------------------------------ claims
AllRows(n) == [k \in 1..n |-> k]

\* Columns the indexer may index: among the first three, of a numeric or
\* temporal sampled type.
Eligible ==
    {c \in 1..Len(first_chunk.dtypes) :
        /\ c <= 3
        /\ first_chunk.dtypes[c] \in {"int64", "float64", "datetime64[ns]"}}

\* C1: a run that ends DONE leaves in the table exactly the data rows of the
\* input, each once, whatever the chunk size, and prints their number; the
\* rows read for the schema sample are not written a second time.
C1_FinalRowCount ==
    (Returned /\ outcome = "DONE") =>
        /\ committed.exists
        /\ Len(committed.rows) = file.nrows
        /\ committed.rows = AllRows(file.nrows)
        /\ row_count = file.nrows

C1_Witness ==
    /\ Returned
    /\ outcome = "DONE"
    /\ file.nrows = 3
    /\ chunksize = 2
    /\ first_chunk.len = 3
    /\ hist.db0 = OldTable
    /\ committed.rows = <<1, 2, 3>>

\* C2: when two successive runs on the same file and table both end DONE, the
\* table has as many rows after the second as after the first.
C2_RerunSameCount ==
    (Returned /\ outcome = "DONE" /\ hist.prevOutcome = "DONE") =>
        Len(committed.rows) = hist.prevRows

C2_Witness ==
    /\ Returned
    /\ runs = 2
    /\ outcome = "DONE"
    /\ hist.prevOutcome = "DONE"
    /\ file.nrows = 3
    /\ hist.prevRows = 3
    /\ Len(committed.rows) = 3

\* C3: whenever the function has returned, a connection it opened is closed,
\* whichever statement the run ended at.
C3_ConnectionReleased ==
    Returned =>
        /\ conn # "open"
        /\ hist.connects > 0 => conn = "closed"

C3_Witness ==
    /\ Returned
    /\ outcome = "FAILED"
    /\ hist.failStage = "to_sql"
    /\ hist.connects = 1
    /\ conn = "closed"

\* C4: the progress counter stays within 0..file_size in every state, and no
\* step of a run lowers it.
C4_ProgressBounded ==
    /\ [](0 <= pbar_n /\ pbar_n <= file_size)
    /\ [][pc # "idle" => pbar_n' >= pbar_n]_vars

\* A second chunk whose estimate exceeds the bytes that remain.
C4_Witness ==
    /\ pc = "chunk_commit"
    /\ i = 1
    /\ pbar_n = file_size
    /\ 2 * chunksize * Len(file.cols) * ByteFactor > file_size
    /\ chunksize * Len(file.cols) * ByteFactor < file_size

\* C5: for a header-only file the reader hands out no chunk, the table is
\* nevertheless created, empty, no index fails, and the run ends DONE.
C5_EmptyInputDone ==
    (Returned /\ file.exists /\ file.nrows = 0 /\ ~hist.envFault) =>
        /\ nchunks = 0
        /\ committed.exists
        /\ committed.rows = <<>>
        /\ hist.idxFailed = {}
        /\ outcome = "DONE"

\* C6: the loop is entered again only with everything committed, and a run
\* that fails reading or writing chunk k >= 1 ends FAILED with exactly the
\* rows of chunks 0..k-1 in the table.
C6_PriorChunksKept ==
    /\ pc = "next" => working = committed
    /\ (Returned /\ hist.failStage \in {"next", "to_sql"} /\ hist.failChunk >= 1) =>
          /\ outcome = "FAILED"
          /\ committed.exists
          /\ committed.rows = AllRows(hist.failChunk * chunksize)

C6_Witness ==
    /\ Returned
    /\ outcome = "FAILED"
    /\ hist.failStage = "to_sql"
    /\ hist.failChunk = 1
    /\ chunksize = 2
    /\ file.nrows = 3
    /\ committed.rows = <<1, 2>>

\* C7: with the source file missing the run fails at the size lookup, made
\* once, prints the not-found message, opens no connection, runs no
\* statement, commits nothing, and leaves the database as it was.
C7_MissingFile ==
    (Returned /\ ~file.exists) =>
        /\ outcome = "FAILED"
        /\ reported = {"not_found"}
        /\ hist.failStage = "getsize"
        /\ hist.lookups = 1
        /\ conn = "unbound"
        /\ hist.connects = 0
        /\ hist.stmts = 0
        /\ hist.commits = 0
        /\ committed = hist.db0

C7_Witness ==
    /\ Returned
    /\ ~file.exists
    /\ outcome = "FAILED"
    /\ committed = OldTable

\* C8: an index is created only on a column among the first three whose
\* sampled type is integer, float or timestamp; once the old table is
\* dropped, the table carries no index on any other column.
C8_IndexOnlyEligible ==
    /\ hist.created \subseteq Eligible
    /\ hist.commits > 0 =>
          (working.idx \subseteq Eligible /\ committed.idx \subseteq Eligible)

\* A numeric fourth column and a text column among the first three, both
\* left without an index while another column got one.
C8_Witness ==
    /\ Returned
    /\ outcome = "DONE"
    /\ Len(file.cols) = 4
    /\ first_chunk.dtypes[4] = "int64"
    /\ \E c \in 1..3 : first_chunk.dtypes[c] = "object"
    /\ committed.idx # {}
    /\ 4 \notin committed.idx

\* C9: when creating one index fails the run does not fail, and every other
\* eligible column, those after the failing one included, has its index.
C9_OtherIndexesCreated ==
    (Returned /\ hist.idxFailed # {}) =>
        /\ outcome # "FAILED"
        /\ \A c \in Eligible \ hist.idxFailed : c \in committed.idx

\* C10: no exception leaves the function; one raised outside the indexing
\* block is caught by exactly one outer clause, reported, and the run ends
\* FAILED; only a run without a failure or with a failure in the indexing
\* block ends otherwise.
C10_ErrorsCaught ==
    /\ outcome # "ESCAPED"
    /\ Returned => exc = "none"
    /\ (Returned /\ hist.failStage \notin {"none", "index", "index_commit"}) =>
          /\ outcome = "FAILED"
          /\ reported \in {{"error"}, {"not_found"}}
    /\ (Returned /\ outcome # "FAILED") =>
          hist.failStage \in {"none", "index", "index_commit"}

C10_Witness ==
    /\ Returned
    /\ outcome = "FAILED"
    /\ hist.failStage = "chunk_commit"
    /\ reported = {"error"}
    /\ exc = "none"

\* Index of the chunk that holds data row r.
ChunkOf(r) == (r - 1) \div chunksize

\* C11: a data row with one field fewer than the header is fatal: the run
\* fails on the chunk that holds the row, with the chunks before it committed
\* and that chunk not written.
C11_ShortRowFatal ==
    (Returned /\ file.short /\ ~hist.envFault) =>
        /\ outcome = "FAILED"
        /\ hist.failStage = "next"
        /\ hist.failChunk = ChunkOf(file.nrows)
        /\ committed.rows = AllRows(ChunkOf(file.nrows) * chunksize)

\* C12: a column among the first three whose sampled values all read as
\* dates is sampled as a timestamp column and has its index after the load.
C12_DateColumnIndexed ==
    (Returned /\ outcome = "DONE" /\ hist.failStage = "none") =>
        \A c \in 1..Min(3, Len(file.cols)) :
            (file.cols[c] = "date" /\ first_chunk.len >= 1) =>
                /\ first_chunk.dtypes[c] = "datetime64[ns]"
                /\ c \in committed.idx

\* ceil(n / size)
Ceil(n, size) == (n + size - 1) \div size

\* What holds of the chunks handed out, whatever their number: in file order
\* they make up the data rows, none has more than chunksize rows, and only
\* the last may have fewer.
ChunksCoverInput ==
    /\ hist.read = AllRows(file.nrows)
    /\ SumSeq(hist.lens) = file.nrows
    /\ \A k \in 1..Len(hist.lens) : hist.lens[k] <= chunksize
    /\ \A k \in 1..(Len(hist.lens) - 1) : hist.lens[k] = chunksize

HeaderHasTab == file.fsep = "\t" /\ Len(file.cols) >= 2

\* C14: once the header line is read, the separator is the tab exactly when
\* that line holds a tab, the comma otherwise, and the sample read and the
\* chunked read are both given that separator.
C14_DelimiterDetected ==
    /\ first_line # <<>> =>
          /\ sep = "\t" <=> HeaderHasTab
          /\ sep = "," <=> ~HeaderHasTab
          /\ HeaderHasTab <=> (\E k \in 1..Len(first_line) : first_line[k] = "\t")
    /\ hist.sampleSep # "" => hist.sampleSep = sep
    /\ hist.readerSep # "" => hist.readerSep = sep
    /\ pc \in {"drop", "drop_commit", "reader"} => hist.sampleSep = sep
    /\ pc \in {"next", "to_sql", "update", "chunk_commit", "count", "index"} =>
          (hist.sampleSep = sep /\ hist.readerSep = sep)

C14_Witness ==
    /\ Returned
    /\ outcome = "DONE"
    /\ Len(first_line) = 3
    /\ first_line[2] = "\t"
    /\ sep = "\t"
    /\ hist.sampleSep = "\t"
    /\ hist.readerSep = "\t"
    /\ nchunks = 2

\* The stations of a run that ends DONE, up to the end of the chunk loop.
LoadEvents ==
    <<"SCHEMA_SAMPLED", "TABLE_CREATED">>
        \o (IF nchunks >= 2 THEN <<"APPENDING">> ELSE <<>>)
        \o <<"exhausted">>

\* C15 as stated, for a file with data rows: a run that ends DONE has
\* sampled, created the table, appended, then run the indexer once after the
\* chunks were exhausted, and reported the row count after the indexer.
C15_CountAfterIndexing ==
    (Returned /\ outcome = "DONE" /\ file.nrows >= 1) =>
        hist.events = LoadEvents \o <<"INDEXED", "counted">>

\* C15 amended: the same order, but the row count is reported right after
\* the chunk loop, before the indexer runs.
C15_StateOrder ==
    (Returned /\ outcome = "DONE") =>
        hist.events = LoadEvents \o <<"counted", "INDEXED">>

C15_Witness ==
    /\ Returned
    /\ outcome = "DONE"
    /\ nchunks = 2
    /\ hist.created # {}
    /\ hist.events = <<"SCHEMA_SAMPLED", "TABLE_CREATED", "APPENDING",
                       "exhausted", "counted", "INDEXED">>

\* Chunk 0 has been written in this run.
WroteFirst ==
    /\ pc # "idle"
    /\ \E k \in 1..Len(hist.events) : hist.events[k] = "TABLE_CREATED"

\* The writes so far used replace for chunk 0 and append for every later one.
ModesInOrder ==
    \A k \in 1..Len(hist.modes) :
        hist.modes[k] = (IF k = 1 THEN "replace" ELSE "append")

\* Within a run, once chunk 0 is written, no step takes rows from the table:
\* not from what is committed, and not from what the connection sees while
\* it is open.
RowsNeverDecrease ==
    [][WroteFirst =>
          /\ Len(committed'.rows) >= Len(committed.rows)
          /\ pc # "finally" => Len(working'.rows) >= Len(working.rows)]_vars

\* C16 as stated: the table is dropped or replaced on the write of chunk 0
\* and at no other point of the run; chunk 0 is written with replace, every
\* later chunk with append; after chunk 0 the row count never decreases.
C16_DropOnlyOnFirstChunk ==
    /\ [](hist.dropAt \subseteq {0} /\ ModesInOrder)
    /\ RowsNeverDecrease

\* C16 amended: the table is dropped by the DROP statement before the chunk
\* loop and replaced by the write of chunk 0, and at no other point; the rest
\* as stated.
C16_ReplaceThenAppend ==
    /\ [](hist.dropAt \subseteq {BeforeLoop, 0} /\ ModesInOrder)
    /\ RowsNeverDecrease

C16_Witness ==
    /\ pc = "chunk_commit"
    /\ i = 1
    /\ hist.db0 = OldTable
    /\ hist.modes = <<"replace", "append">>
    /\ hist.dropAt = {BeforeLoop, 0}
    /\ working.rows = <<1, 2, 3>>

\* C17: the drop of the table is executed only after the sample was read and
\* is committed before a chunk is read; a run that had a table to drop,
\* committed the drop and wrote no chunk (the read of chunk 0 failed, or the
\* reader had no chunk) leaves no table and none of the old rows.
C17_DropCommittedEarly ==
    /\ BeforeLoop \in hist.dropAt =>
          (Len(hist.events) >= 1 /\ hist.events[1] = "SCHEMA_SAMPLED")
    /\ pc = "reader" =>
          (committed = NoTable /\ hist.commits = 1 /\ hist.lens = <<>>)
    /\ hist.lens # <<>> => (BeforeLoop \in hist.dropAt /\ hist.commits >= 1)
    /\ (Returned /\ hist.db0.exists /\ hist.commits >= 1 /\ hist.modes = <<>>) =>
          /\ ~committed.exists
          /\ committed.rows = <<>>
          /\ outcome = "FAILED"

C17_Witness ==
    /\ Returned
    /\ hist.db0 = OldTable
    /\ hist.failStage = "next"
    /\ hist.failChunk = 0
    /\ hist.commits = 1
    /\ committed = NoTable

\* C18: a run that fails at the size lookup, the header read, the connect or
\* the sample read ends FAILED having run no statement and committed
\* nothing: the table is what it was before the run, rows and indexes.
C18_EarlyFailureKeepsTable ==
    (Returned /\ hist.failStage \in {"getsize", "header", "connect", "sample"}) =>
        /\ outcome = "FAILED"
        /\ hist.stmts = 0
        /\ hist.commits = 0
        /\ hist.dropAt = {}
        /\ committed = hist.db0

C18_Witness ==
    /\ Returned
    /\ outcome = "FAILED"
    /\ hist.failStage = "sample"
    /\ conn = "closed"
    /\ hist.db0 = OldTable
    /\ committed = OldTable

\* The indexer has been entered in this run.
IndexingBegun ==
    pc \in {"index", "index_except"} \/ hist.created # {} \/ hist.idxFailed # {}

\* C19: the indexer is entered only when every chunk was read, written and
\* committed and the row count was obtained; a run that ends FAILED created
\* no index and attempted none.
C19_IndexAfterFullLoad ==
    /\ IndexingBegun =>
          /\ hist.read = AllRows(file.nrows)
          /\ Len(hist.modes) = nchunks
          /\ committed.exists
          /\ committed.rows = AllRows(file.nrows)
          /\ row_count = file.nrows
    /\ (Returned /\ outcome = "FAILED") =>
          /\ hist.created = {}
          /\ hist.idxFailed = {}
          /\ hist.commits > 0 => committed.idx = {}

C19_Witness ==
    /\ Returned
    /\ outcome = "DONE"
    /\ nchunks = 2
    /\ row_count = 3
    /\ hist.created # {}
    /\ committed.idx = hist.created

\* C20: every call that was started returns, as DONE or as FAILED and never
\* as anything else; the loop body runs at most once per chunk of the file
\* (once for a file without rows), the size lookup and the connect are made
\* at most once, and after the return nothing runs but a new call.
C20_Terminates ==
    /\ (outcome = "running") ~> (Returned /\ outcome \in {"DONE", "FAILED"})
    /\ [](Returned => outcome \in {"DONE", "FAILED"})
    /\ [](/\ nchunks <= Max(1, Ceil(file.nrows, chunksize))
          /\ Len(hist.modes) <= nchunks
          /\ hist.lookups <= 1
          /\ hist.connects <= 1)
    /\ [][pc = "idle" => (pc' = "getsize" /\ runs' = runs + 1)]_vars

C20_Witness ==
    /\ Returned
    /\ runs = 2
    /\ outcome = "FAILED"
    /\ hist.prevOutcome = "DONE"
    /\ nchunks = 2
    /\ hist.failStage = "chunk_commit"

====
